---- MODULE Spec2Model ----
(***************************************************************************)
(* Model of the PDF report endpoint of the Zabbix web service              *)
(* (src/go/cmd/zabbix_web_service/pdf_report_creator.go).                  *)
(*                                                                         *)
(* One request is followed from handler.report's first statement to its    *)
(* return.  Three activities run concurrently once the handler has started *)
(* runCDP: the handler (blocked on the receive from respChan), the runCDP  *)
(* goroutine (the chromedp.Run pipeline and the send on respChan) and the  *)
(* ListenTarget callback, which the automation engine invokes for every    *)
(* event of the target.                                                    *)
(***************************************************************************)
EXTENDS Integers, Sequences, FiniteSets, TLC

(***************************************************************************)
(* Bounds of the model.                                                    *)
(***************************************************************************)
\* longest parameters["width"] / parameters["height"] string, in characters
MaxLen == 2
\* most load failures the automation engine reports to the ListenTarget callback
MaxEvents == 2

(***************************************************************************)
(* Values.                                                                 *)
(***************************************************************************)
NoErr == <<>>
NoData == "no data"
Missing == <<"missing key">>
PDF == "%PDF"

StatusOK == 200
StatusBadRequest == 400
StatusMethodNotAllowed == 405
StatusInternalServerError == 500

netErrCertAuthorityInvalid == "net::ERR_CERT_AUTHORITY_INVALID"

(***************************************************************************)
(* strconv.ParseInt(s, 10, 64) on strings over a small alphabet.  A string *)
(* is a sequence of characters.  No string of the lengths considered       *)
(* exceeds the 64-bit range, so the only error is the syntax error.  (Go   *)
(* also accepts a leading "+", which the alphabet leaves out.)             *)
(***************************************************************************)
Alphabet == {"-", "1", "a"}
Digits == {"0", "1"}

Strings == UNION {[1..k -> Alphabet] : k \in 0..MaxLen}

DigitValue(c) == IF c = "1" THEN 1 ELSE 0

RECURSIVE Decimal(_)
Decimal(s) ==
    IF s = <<>> THEN 0
    ELSE 10 * Decimal(SubSeq(s, 1, Len(s) - 1)) + DigitValue(s[Len(s)])

ParseInt(s) ==
    IF s = <<>>
    THEN [val |-> 0, err |-> <<"strconv.ParseInt: parsing %s: invalid syntax", s>>]
    ELSE LET neg == s[1] = "-"
             body == IF neg THEN Tail(s) ELSE s
         IN IF body = <<>> \/ \E i \in 1..Len(body) : body[i] \notin Digits
            THEN [val |-> 0,
                  err |-> <<"strconv.ParseInt: parsing %s: invalid syntax", s>>]
            ELSE [val |-> IF neg THEN 0 - Decimal(body) ELSE Decimal(body),
                  err |-> NoErr]

\* req.Parameters[key]: a Go map yields the empty string for a missing key
Parameter(v) == IF v = Missing THEN <<>> ELSE v

(***************************************************************************)
(* URLs.  A raw URL is the empty string or a record of the parts url.Parse *)
(* separates: whether the text parses at all, the scheme as written, the   *)
(* path as a sequence of tokens and the query as a sequence of pairs.      *)
(***************************************************************************)
EmptyURL == [empty |-> TRUE, parses |-> TRUE, scheme |-> "", path |-> <<>>, query |-> <<>>]
NoURL == [Scheme |-> "", Path |-> <<>>, RawQuery |-> <<>>]

RawSchemes == {"", "HTTPS", "ftp"}
RawPaths == {<<>>, <<"/", "zabbix.php">>, <<"/", "index.php">>, <<"zabbix.php">>,
             <<"/", "zabbix.php", "/", "index.php">>}
RawQueries == {<<>>,
               <<<<"action", "dashboard.print">>>>,
               <<<<"action", "dashboard.view">>>>,
               <<<<"action", "dashboard.view">>, <<"action", "dashboard.print">>>>}

RawURLs == {EmptyURL} \cup
           [empty : {FALSE}, parses : BOOLEAN, scheme : RawSchemes, path : RawPaths, query : RawQueries]

\* url.Parse lower-cases the scheme
ToLower(s) == IF s = "HTTPS" THEN "https" ELSE s

urlParse(raw) ==
    IF raw.parses
    THEN [u |-> [Scheme |-> ToLower(raw.scheme), Path |-> raw.path, RawQuery |-> raw.query],
          err |-> NoErr]
    ELSE [u |-> NoURL, err |-> <<"parse error">>]

parseUrl(raw) ==
    IF raw.empty THEN [u |-> NoURL, err |-> <<"url is empty">>]
    ELSE LET p == urlParse(raw)
         IN IF p.err # NoErr THEN [u |-> NoURL, err |-> p.err]
            ELSE IF p.u.Scheme = "" THEN [u |-> NoURL, err |-> <<"url is missing scheme">>]
            ELSE p

HasSuffix(s, suffix) ==
    /\ Len(s) >= Len(suffix)
    /\ SubSeq(s, Len(s) - Len(suffix) + 1, Len(s)) = suffix

\* url.Values.Get: the first value of the key, the empty string without one
QueryGet(query, key) ==
    IF \E i \in 1..Len(query) : query[i][1] = key
    THEN query[CHOOSE i \in 1..Len(query) :
                   /\ query[i][1] = key
                   /\ \A j \in 1..(i - 1) : query[j][1] # key][2]
    ELSE ""

(***************************************************************************)
(* handleErr: the message for a network.EventLoadingFailed error text.     *)
(***************************************************************************)
ErrorTexts == {netErrCertAuthorityInvalid, "net::err_cert_authority_invalid", ""}

MsgCertAuthority ==
    <<"Invalid certificate authority detected while loading dashboard. Fix TLS configuration or configure Zabbix web service to ignore TLS certificate errors when accessing frontend URL.">>
MsgEmptyErrorText ==
    <<"network.EventLoadingFailed event with empty ErrorText was received while loading dashboard.">>
MsgErrorText(errStr) ==
    <<"network.EventLoadingFailed event with ErrorText = '%s' was received while loading dashboard.", errStr>>

\* handleErr without the case of line 370: the empty text falls to the default
handleErr_NoEmptyCase(errStr) ==
    CASE errStr = netErrCertAuthorityInvalid -> MsgCertAuthority
      [] OTHER -> MsgErrorText(errStr)

\* handleErr without the case of line 364
handleErr_NoCertCase(errStr) ==
    CASE errStr = "" -> MsgEmptyErrorText
      [] OTHER -> MsgErrorText(errStr)

handleErr(errStr) ==
    CASE errStr = netErrCertAuthorityInvalid -> MsgCertAuthority
      [] errStr = "" -> MsgEmptyErrorText
      [] OTHER -> MsgErrorText(errStr)

(***************************************************************************)
(* The request line.  A remote address is a sequence of tokens, as         *)
(* net.SplitHostPort sees it: host, ":" and port, or a host with no port.  *)
(***************************************************************************)
RemoteAddrs == {<<"10.0.0.1", ":", "5000">>, <<"10.0.0.9", ":", "5000">>,
                <<"10.0.0.1">>, <<"localhost", ":", "5000">>}
Methods == {"POST", "GET"}
ContentTypes == {"application/json", "text/plain"}

SplitHostPort(addr) ==
    IF Len(addr) = 3 /\ addr[2] = ":"
    THEN [host |-> addr[1], err |-> NoErr]
    ELSE [host |-> "", err |-> <<"address %s: missing port in address", addr>>]

\* net.ParseIP: nil for a host that is no IP address
ParseIP(h) == IF h \in {"10.0.0.1", "10.0.0.9"} THEN h ELSE "nil"

\* h.allowedPeers: the configured allow-list
allowedPeers == {"10.0.0.1"}
CheckPeer(ip) == ip \in allowedPeers

\* the Cookie header of the request body, as a sequence of name=value pairs
CookieHeaders == {<<<<"sid", "abc">>>>}

\* url.URL.String(): the scheme, the path and the query of the parsed URL
String(url) == <<url.Scheme, "://host", url.Path, url.RawQuery>>

httpCookiesGet(header) == header

\* lines 193-204: one network.CookieParam for each cookie of the header
cookieParamsOf(header) ==
    [i \in 1..Len(httpCookiesGet(header)) |->
        [Name |-> httpCookiesGet(header)[i][1], Value |-> httpCookiesGet(header)[i][2],
         Domain |-> "host", SameSite |-> "Strict", HTTPOnly |-> TRUE]]

(***************************************************************************)
(* State.                                                                  *)
(***************************************************************************)
VARIABLES
    r,             \* the request: RemoteAddr, Method, Content-Type
    req,           \* the request body, each field as far as the handler has read it
    reqCtx,        \* r.Context(): "live", or "cancelled" when the caller has gone
    hpc,           \* the handler's position in report
    trace,         \* the steps the handler has executed, in order
    w,             \* the response written so far
    writes,        \* how many responses were written
    host,          \* report's host
    allocCtx,      \* the exec allocator context: "none", "live", "cancelled"
    ctx,           \* the browser context: "none", "live", "cancelled"
    width, height, \* report's width and height
    u,             \* report's u, the parsed URL
    cdpReqParams,  \* the parameters handed to runCDP
    respChan,      \* "none", "open", "closed"
    resp,          \* the chromedpResp the handler received
    rpc,           \* runCDP's position
    inflight,      \* whether runCDP waits for the answer to a command
    issued,        \* the automation commands issued, in order
    listening,     \* whether the ListenTarget callback is registered
    listenerErr,   \* runCDP's listenerErr
    err,           \* runCDP's err, the result of chromedp.Run
    out,           \* runCDP's out
    pending,       \* the chromedpResp runCDP is sending
    sent, recvd,   \* sends and receives completed on respChan
    lpc,           \* the callback's position: "idle", or "cancel" before line 264
    events,        \* load failures delivered to the callback so far
    handledInRun,  \* whether a load failure was handled before chromedp.Run returned
    lastText       \* the ErrorText of the last load failure handled

reqVars == <<r, req, reqCtx>>
respVars == <<w, writes>>
sessionVars == <<allocCtx, ctx>>
localVars == <<host, width, height, u>>
chanVars == <<respChan, resp, sent, recvd>>
cdpVars == <<cdpReqParams, rpc, inflight, issued, listening, err, out, pending>>
listenerVars == <<listenerErr, lpc, events, handledInRun, lastText>>

vars == <<reqVars, hpc, trace, respVars, sessionVars, localVars, chanVars, cdpVars,
          listenerVars>>

\* a field of the body the handler has not read
Unread == <<"unread">>
UnreadURL == [empty |-> FALSE, parses |-> FALSE, scheme |-> "", path |-> Unread,
              query |-> <<>>]

NoResponse == [status |-> 0, contentType |-> "", nosniff |-> FALSE,
               detail |-> <<>>, data |-> NoData]
NoChromedpResp == [data |-> NoData, err |-> NoErr]
NoParams == [cookieParams |-> <<>>, size |-> [width |-> 0, height |-> 0],
             url |-> String(NoURL)]

Init ==
    /\ r \in [RemoteAddr : RemoteAddrs, Method : Methods, ContentType : ContentTypes]
    /\ req = [URL |-> UnreadURL, Parameters |-> [width |-> Unread, height |-> Unread]]
    /\ reqCtx = "live"
    /\ hpc = "SplitHostPort"
    /\ trace = <<>>
    /\ w = NoResponse
    /\ writes = 0
    /\ host = ""
    /\ allocCtx = "none"
    /\ ctx = "none"
    /\ width = 0
    /\ height = 0
    /\ u = NoURL
    /\ cdpReqParams = NoParams
    /\ respChan = "none"
    /\ resp = NoChromedpResp
    /\ rpc = "idle"
    /\ inflight = FALSE
    /\ issued = <<>>
    /\ listening = FALSE
    /\ listenerErr = NoErr
    /\ err = NoErr
    /\ out = NoData
    /\ pending = NoChromedpResp
    /\ sent = 0
    /\ recvd = 0
    /\ lpc = "idle"
    /\ events = 0
    /\ handledInRun = FALSE
    /\ lastText = "none"

(***************************************************************************)
(* handler.report.                                                         *)
(***************************************************************************)
\* logAndWriteError writing http.StatusInternalServerError whatever the code
logAndWriteError_Always500(errMsg, code) ==
    /\ w' = [status |-> StatusInternalServerError,
             contentType |-> "application/problem+json",
             nosniff |-> TRUE, detail |-> errMsg, data |-> NoData]
    /\ writes' = writes + 1

logAndWriteError(errMsg, code) ==
    /\ w' = [status |-> code, contentType |-> "application/problem+json",
             nosniff |-> TRUE, detail |-> errMsg, data |-> NoData]
    /\ writes' = writes + 1

\* the return without the deferred cancel of line 141
Return_NoAllocCancel ==
    /\ hpc' = "done"
    /\ respChan' = IF respChan = "open" THEN "closed" ELSE respChan
    /\ ctx' = IF ctx = "none" THEN "none" ELSE "cancelled"
    /\ allocCtx' = allocCtx

\* the handler returns: the deferred calls of lines 216, 144 and 141 run
Return ==
    /\ hpc' = "done"
    /\ respChan' = IF respChan = "open" THEN "closed" ELSE respChan
    /\ ctx' = IF ctx = "none" THEN "none" ELSE "cancelled"
    /\ allocCtx' = IF allocCtx = "none" THEN "none" ELSE "cancelled"

\* a check of the handler: on failure the error is written and the handler
\* returns, otherwise the handler goes on to the next step
Check(step, failed, errMsg, code, next) ==
    /\ hpc = step
    /\ trace' = Append(trace, step)
    /\ IF failed
       THEN /\ logAndWriteError(errMsg, code)
            /\ Return
            /\ UNCHANGED <<resp, sent, recvd>>
       ELSE /\ hpc' = next
            /\ UNCHANGED <<respVars, sessionVars, chanVars>>
    /\ UNCHANGED <<r, reqCtx, cdpVars, listenerVars>>

\* lines 95-100
SplitHostPortStep ==
    /\ Check("SplitHostPort", SplitHostPort(r.RemoteAddr).err # NoErr,
             <<"Cannot remove port from host for incoming ip %s.",
               SplitHostPort(r.RemoteAddr).err>>,
             StatusInternalServerError, "CheckPeer")
    /\ host' = SplitHostPort(r.RemoteAddr).host
    /\ UNCHANGED <<req, width, height, u>>

\* lines 102-106 without the return of line 105
CheckPeerStep_NoReturn ==
    /\ hpc = "CheckPeer"
    /\ trace' = Append(trace, "CheckPeer")
    /\ IF ~CheckPeer(ParseIP(host))
       THEN logAndWriteError(<<"Cannot accept incoming connection for peer: %s.",
                               r.RemoteAddr>>, StatusInternalServerError)
       ELSE UNCHANGED respVars
    /\ hpc' = "Method"
    /\ UNCHANGED <<reqVars, sessionVars, localVars, chanVars, cdpVars, listenerVars>>

\* lines 102-106
CheckPeerStep ==
    /\ Check("CheckPeer", ~CheckPeer(ParseIP(host)),
             <<"Cannot accept incoming connection for peer: %s.", r.RemoteAddr>>,
             StatusInternalServerError, "Method")
    /\ UNCHANGED <<req, localVars>>

\* lines 108-112
CheckMethod ==
    /\ Check("Method", r.Method # "POST", <<"Method is not supported.">>,
             StatusMethodNotAllowed, "ContentType")
    /\ UNCHANGED <<req, localVars>>

\* lines 114-118 with the contexts of lines 140-144 created first
CheckContentType_AfterNewContext ==
    /\ hpc = "ContentType"
    /\ trace' = Append(trace, "ContentType")
    /\ IF r.ContentType # "application/json"
       THEN /\ logAndWriteError(<<"Content Type is not application/json.">>,
                                StatusMethodNotAllowed)
            /\ hpc' = "done"
            /\ allocCtx' = "cancelled"
            /\ ctx' = "cancelled"
       ELSE /\ hpc' = "ReadAll"
            /\ UNCHANGED <<respVars, sessionVars>>
    /\ UNCHANGED <<reqVars, localVars, chanVars, cdpVars, listenerVars>>

\* lines 114-118
CheckContentType ==
    /\ Check("ContentType", r.ContentType # "application/json",
             <<"Content Type is not application/json.">>,
             StatusMethodNotAllowed, "ReadAll")
    /\ UNCHANGED <<req, localVars>>

\* lines 120-125: reading the body fails or succeeds
ReadAll ==
    /\ \E readErr \in BOOLEAN :
          Check("ReadAll", readErr, <<"Can not read body data.">>,
                StatusInternalServerError, "Unmarshal")
    /\ UNCHANGED <<req, localVars>>

\* lines 127-132: the body is well-formed JSON or not
Unmarshal ==
    /\ \E jsonErr \in BOOLEAN :
          Check("Unmarshal", jsonErr,
                <<"Cannot unmarshal JSON: %s", <<"invalid character">>>>,
                StatusInternalServerError, "NewContext")
    /\ UNCHANGED <<req, localVars>>

\* lines 134-144: the exec allocator context, a child of r.Context(), and the
\* browser context, a child of the allocator's
NewContext ==
    /\ hpc = "NewContext"
    /\ trace' = Append(trace, "NewContext")
    /\ allocCtx' = reqCtx
    /\ ctx' = reqCtx
    /\ hpc' = "width"
    /\ UNCHANGED <<reqVars, respVars, localVars, chanVars, cdpVars, listenerVars>>

\* lines 146-151 with the error of strconv.ParseInt ignored
ParseWidth_IgnoresErr ==
    \E v \in Strings \cup {Missing} :
        /\ hpc = "width"
        /\ trace' = Append(trace, "width")
        /\ req' = [req EXCEPT !.Parameters.width = v]
        /\ width' = ParseInt(Parameter(v)).val
        /\ hpc' = "height"
        /\ UNCHANGED <<r, reqCtx, respVars, sessionVars, host, height, u, chanVars,
                       cdpVars, listenerVars>>

\* lines 146-151
ParseWidth ==
    \E v \in Strings \cup {Missing} :
        /\ Check("width", ParseInt(Parameter(v)).err # NoErr,
                 <<"Incorrect parameter width: %s", ParseInt(Parameter(v)).err>>,
                 StatusBadRequest, "height")
        /\ req' = [req EXCEPT !.Parameters.width = v]
        /\ width' = ParseInt(Parameter(v)).val
        /\ UNCHANGED <<host, height, u>>

\* lines 153-158
ParseHeight ==
    \E v \in Strings \cup {Missing} :
        /\ Check("height", ParseInt(Parameter(v)).err # NoErr,
                 <<"Incorrect parameter height: %s", ParseInt(Parameter(v)).err>>,
                 StatusBadRequest, "parseUrl")
        /\ req' = [req EXCEPT !.Parameters.height = v]
        /\ height' = ParseInt(Parameter(v)).val
        /\ UNCHANGED <<host, width, u>>

\* lines 160-165
ParseURL ==
    \E raw \in RawURLs :
        /\ Check("parseUrl", parseUrl(raw).err # NoErr,
                 <<"Incorrect request url: %s", parseUrl(raw).err>>,
                 StatusBadRequest, "Scheme")
        /\ req' = [req EXCEPT !.URL = raw]
        /\ u' = parseUrl(raw).u
        /\ UNCHANGED <<host, width, height>>

\* lines 167-171
CheckScheme ==
    /\ Check("Scheme", u.Scheme # "http" /\ u.Scheme # "https",
             <<"Unexpected URL scheme: \"%s\"", u.Scheme>>,
             StatusBadRequest, "Path")
    /\ UNCHANGED <<req, localVars>>

\* lines 173-177 with strings.HasPrefix for strings.HasSuffix
CheckPath_HasPrefix ==
    /\ Check("Path", ~(Len(u.Path) >= 2 /\ SubSeq(u.Path, 1, 2) = <<"/", "zabbix.php">>),
             <<"Unexpected URL path: \"%s\"", u.Path>>,
             StatusBadRequest, "action")
    /\ UNCHANGED <<req, localVars>>

\* lines 173-177
CheckPath ==
    /\ Check("Path", ~HasSuffix(u.Path, <<"/", "zabbix.php">>),
             <<"Unexpected URL path: \"%s\"", u.Path>>,
             StatusBadRequest, "action")
    /\ UNCHANGED <<req, localVars>>

\* lines 179-185
CheckAction ==
    /\ Check("action", QueryGet(u.RawQuery, "action") # "dashboard.print",
             <<"Unexpected URL action: \"%s\"", QueryGet(u.RawQuery, "action")>>,
             StatusBadRequest, "runCDP")
    /\ UNCHANGED <<req, localVars>>

\* lines 187-218: the cookies, the parameters, respChan and the runCDP goroutine
StartRunCDP ==
    /\ hpc = "runCDP"
    /\ trace' = Append(trace, "runCDP")
    /\ \E header \in CookieHeaders :
          cdpReqParams' = [cookieParams |-> cookieParamsOf(header),
                           size |-> [width |-> width, height |-> height],
                           url |-> String(u)]
    /\ respChan' = "open"
    /\ rpc' = "ListenTarget"
    /\ hpc' = "receive"
    /\ UNCHANGED <<reqVars, respVars, sessionVars, localVars, resp, sent, recvd,
                   inflight, issued, listening, err, out, pending, listenerVars>>

\* lines 223-241 without the return of line 230: the PDF headers and body are
\* written after the failure
WriteResponse_NoReturn ==
    /\ hpc = "write"
    /\ trace' = Append(trace, "write")
    /\ w' = [status |-> IF resp.err # NoErr THEN StatusInternalServerError ELSE StatusOK,
             contentType |-> "application/pdf", nosniff |-> FALSE, detail |-> <<>>,
             data |-> resp.data]
    /\ writes' = IF resp.err # NoErr THEN writes + 2 ELSE writes + 1
    /\ Return
    /\ UNCHANGED <<reqVars, localVars, resp, sent, recvd, cdpVars, listenerVars>>

\* lines 223-241: the response for the outcome received, and the return
WriteResponse ==
    /\ hpc = "write"
    /\ trace' = Append(trace, "write")
    /\ IF resp.err # NoErr
       THEN logAndWriteError(<<"Cannot fetch data: %s", resp.err>>,
                             StatusInternalServerError)
       ELSE /\ w' = [status |-> StatusOK, contentType |-> "application/pdf",
                     nosniff |-> FALSE, detail |-> <<>>, data |-> resp.data]
            /\ writes' = writes + 1
    /\ Return
    /\ UNCHANGED <<reqVars, localVars, resp, sent, recvd, cdpVars, listenerVars>>

\* the caller disconnects, and a handler waiting at line 221 gives up and returns
CallerDisconnect_HandlerReturns ==
    /\ hpc # "done"
    /\ reqCtx = "live"
    /\ reqCtx' = "cancelled"
    /\ allocCtx' = IF allocCtx = "none" THEN "none" ELSE "cancelled"
    /\ ctx' = IF ctx = "none" THEN "none" ELSE "cancelled"
    /\ hpc' = IF hpc = "receive" THEN "done" ELSE hpc
    /\ respChan' = IF hpc = "receive" THEN "closed" ELSE respChan
    /\ UNCHANGED <<r, req, trace, respVars, localVars, resp, sent, recvd, cdpVars,
                   listenerVars>>

\* the caller disconnects: r.Context() is cancelled, and its children with it
CallerDisconnect ==
    /\ hpc # "done"
    /\ reqCtx = "live"
    /\ reqCtx' = "cancelled"
    /\ allocCtx' = IF allocCtx = "none" THEN "none" ELSE "cancelled"
    /\ ctx' = IF ctx = "none" THEN "none" ELSE "cancelled"
    /\ UNCHANGED <<r, req, hpc, trace, respVars, localVars, chanVars, cdpVars,
                   listenerVars>>

(***************************************************************************)
(* runCDP.  chromedp.Run executes the tasks in order and returns the first *)
(* error.  A command is issued to the automation engine and answered       *)
(* later; the answer is a success, an error of the engine, the expiry of   *)
(* the command's own timeout or, once the browser context is cancelled,    *)
(* the context's error.                                                    *)
(***************************************************************************)
Commands == <<"SetCookies", "SetDeviceMetricsOverride", "Navigate", "Poll", "PrintToPDF">>

CommandSet == {Commands[i] : i \in 1..Len(Commands)}

ContextCanceled == <<"context canceled">>

\* waitForDashboardReady wraps the error of the poll (line 332)
StepErr(cmd, e) ==
    IF cmd = "Poll" THEN <<"dashboard failed to get ready, url: '%s': %s", e>> ELSE e

\* lines 254-266: the callback is registered before chromedp.Run is called
ListenTarget ==
    /\ rpc = "ListenTarget"
    /\ listening' = TRUE
    /\ rpc' = Commands[1]
    /\ UNCHANGED <<reqVars, hpc, trace, respVars, sessionVars, localVars, chanVars,
                   cdpReqParams, inflight, issued, err, out, pending, listenerVars>>

\* chromedp.Run never noticing the cancellation of the browser context
IssueCommand_IgnoresCancel ==
    /\ rpc \in CommandSet
    /\ ~inflight
    /\ ctx = "live"
    /\ inflight' = TRUE
    /\ issued' = Append(issued, rpc)
    /\ UNCHANGED <<reqVars, hpc, trace, respVars, sessionVars, localVars, chanVars,
                   cdpReqParams, rpc, err, listening, out, pending, listenerVars>>

\* chromedp.Run hands the next task to the engine, or returns the context's
\* error when the browser context is cancelled already
IssueCommand ==
    /\ rpc \in CommandSet
    /\ ~inflight
    /\ IF ctx = "live"
       THEN /\ inflight' = TRUE
            /\ issued' = Append(issued, rpc)
            /\ UNCHANGED <<rpc, err>>
       ELSE /\ err' = StepErr(rpc, ContextCanceled)
            /\ rpc' = "returned"
            /\ UNCHANGED <<inflight, issued>>
    /\ UNCHANGED <<reqVars, hpc, trace, respVars, sessionVars, localVars, chanVars,
                   cdpReqParams, listening, out, pending, listenerVars>>

\* the answer with a retry: a failed command is issued again
Answer_Retries(cmd, next, errors) ==
    /\ rpc = cmd
    /\ inflight
    /\ inflight' = FALSE
    /\ \E e \in {NoErr} \cup errors \cup (IF ctx = "live" THEN {} ELSE {ContextCanceled}) :
          /\ rpc' = IF e = NoErr THEN next ELSE cmd
          /\ UNCHANGED err
    /\ UNCHANGED <<reqVars, hpc, trace, respVars, sessionVars, localVars, chanVars,
                   cdpReqParams, issued, listening, pending, listenerVars>>

\* the answer with the error recorded and the next task run all the same
Answer_ContinuesOnError(cmd, next, errors) ==
    /\ rpc = cmd
    /\ inflight
    /\ inflight' = FALSE
    /\ \E e \in {NoErr} \cup errors \cup (IF ctx = "live" THEN {} ELSE {ContextCanceled}) :
          /\ rpc' = next
          /\ err' = IF e = NoErr THEN err ELSE StepErr(cmd, e)
    /\ UNCHANGED <<reqVars, hpc, trace, respVars, sessionVars, localVars, chanVars,
                   cdpReqParams, issued, listening, pending, listenerVars>>

\* the answer to the command in flight: NoErr and the next task, or the error
\* chromedp.Run returns
Answer(cmd, next, errors) ==
    /\ rpc = cmd
    /\ inflight
    /\ inflight' = FALSE
    /\ \E e \in {NoErr} \cup errors \cup
                (IF ctx = "live" THEN {} ELSE {ContextCanceled}) :
          IF e = NoErr
          THEN /\ rpc' = next
               /\ UNCHANGED err
          ELSE /\ rpc' = "returned"
               /\ err' = StepErr(cmd, e)
    /\ UNCHANGED <<reqVars, hpc, trace, respVars, sessionVars, localVars, chanVars,
                   cdpReqParams, issued, listening, pending, listenerVars>>

\* line 269
SetCookies ==
    /\ Answer("SetCookies", "SetDeviceMetricsOverride", {<<"engine error">>})
    /\ UNCHANGED out

\* line 270
SetDeviceMetricsOverride ==
    /\ Answer("SetDeviceMetricsOverride", "Navigate", {<<"engine error">>})
    /\ UNCHANGED out

\* lines 309-314
Navigate ==
    /\ Answer("Navigate", "Poll", {<<"engine error">>})
    /\ UNCHANGED out

\* lines 320-342: the poll ends ready, with the polling timeout, or not ready
\* and with no error
waitForDashboardReady ==
    /\ Answer("Poll", "PrintToPDF",
              {<<"polling timed out">>, <<"engine error">>})
    /\ UNCHANGED out

\* line 338: the poll returned no error and isReady is false
DashboardNotReady ==
    /\ rpc = "Poll"
    /\ inflight
    /\ inflight' = FALSE
    /\ rpc' = "returned"
    /\ err' = <<"dashboard failed to get ready with no error, url: '%s'">>
    /\ UNCHANGED <<reqVars, hpc, trace, respVars, sessionVars, localVars, chanVars,
                   cdpReqParams, issued, listening, out, pending, listenerVars>>

\* lines 272-284: the capture under its own timeout; out is assigned with err
PrintToPDF ==
    /\ Answer("PrintToPDF", "returned",
              {<<"context deadline exceeded">>, <<"engine error">>})
    /\ out' = IF rpc' = "returned" /\ err' = err /\ err = NoErr THEN PDF ELSE NoData

\* lines 287-294 returning without the send of line 291
CheckListenerErr_NoSend ==
    /\ rpc = "returned"
    /\ IF listenerErr # NoErr
       THEN /\ rpc' = "done"
            /\ UNCHANGED pending
       ELSE /\ rpc' = "send"
            /\ pending' = IF err # NoErr
                          THEN [data |-> NoData, err |-> err]
                          ELSE [data |-> out, err |-> NoErr]
    /\ UNCHANGED <<reqVars, hpc, trace, respVars, sessionVars, localVars, chanVars,
                   cdpReqParams, inflight, issued, listening, err, out, listenerVars>>

\* lines 287-302 with err tested before listenerErr
CheckListenerErr_ErrFirst ==
    /\ rpc = "returned"
    /\ IF err = NoErr /\ listenerErr # NoErr
       THEN /\ rpc' = "sendListenerErr"
            /\ UNCHANGED pending
       ELSE /\ rpc' = "send"
            /\ pending' = IF err # NoErr
                          THEN [data |-> NoData, err |-> err]
                          ELSE [data |-> out, err |-> NoErr]
    /\ UNCHANGED <<reqVars, hpc, trace, respVars, sessionVars, localVars, chanVars,
                   cdpReqParams, inflight, issued, listening, err, out, listenerVars>>

\* lines 287-302: the branch taken after chromedp.Run returned; err and out
\* belong to this goroutine, listenerErr is read again at line 291
CheckListenerErr ==
    /\ rpc = "returned"
    /\ IF listenerErr # NoErr
       THEN /\ rpc' = "sendListenerErr"
            /\ UNCHANGED pending
       ELSE /\ rpc' = "send"
            /\ pending' = IF err # NoErr
                          THEN [data |-> NoData, err |-> err]
                          ELSE [data |-> out, err |-> NoErr]
    /\ UNCHANGED <<reqVars, hpc, trace, respVars, sessionVars, localVars, chanVars,
                   cdpReqParams, inflight, issued, listening, err, out, listenerVars>>

\* line 291 with out sent along with the error
ListenerErrResp_WithData ==
    /\ rpc = "sendListenerErr"
    /\ pending' = [data |-> out, err |-> listenerErr]
    /\ rpc' = "send"
    /\ UNCHANGED <<reqVars, hpc, trace, respVars, sessionVars, localVars, chanVars,
                   cdpReqParams, inflight, issued, listening, err, out, listenerVars>>

\* line 291: the value to send is built from listenerErr
ListenerErrResp ==
    /\ rpc = "sendListenerErr"
    /\ pending' = [data |-> NoData, err |-> listenerErr]
    /\ rpc' = "send"
    /\ UNCHANGED <<reqVars, hpc, trace, respVars, sessionVars, localVars, chanVars,
                   cdpReqParams, inflight, issued, listening, err, out, listenerVars>>

\* line 221 with line 291, 297 or 302: respChan is unbuffered, so the send and
\* the receive complete together
Receive ==
    /\ hpc = "receive"
    /\ rpc = "send"
    /\ respChan = "open"
    /\ resp' = pending
    /\ sent' = sent + 1
    /\ recvd' = recvd + 1
    /\ rpc' = "done"
    /\ hpc' = "write"
    /\ trace' = Append(trace, "receive")
    /\ UNCHANGED <<reqVars, respVars, sessionVars, localVars, respChan,
                   cdpReqParams, inflight, issued, listening, err, out, pending,
                   listenerVars>>

(***************************************************************************)
(* The ListenTarget callback (lines 256-265).  The engine calls it for     *)
(* every event of the target, one call at a time, until the handler has    *)
(* returned and the deferred cancellations have shut the session down.     *)
(***************************************************************************)
Events == {[type |-> "EventLoadingFailed", ErrorText |-> t] : t \in ErrorTexts}
          \cup {[type |-> "EventResponseReceived", ErrorText |-> ""]}

\* lines 257-262
ListenTargetCallback ==
    /\ listening
    /\ hpc # "done"
    /\ lpc = "idle"
    /\ \E ev \in Events :
          IF ev.type = "EventLoadingFailed"
          THEN /\ events < MaxEvents
               /\ events' = events + 1
               /\ listenerErr' = handleErr(ev.ErrorText)
               /\ lpc' = "cancel"
               /\ handledInRun' = (handledInRun \/ rpc \in CommandSet)
               /\ lastText' = ev.ErrorText
          ELSE UNCHANGED <<listenerErr, lpc, events, handledInRun, lastText>>
    /\ UNCHANGED <<reqVars, hpc, trace, respVars, sessionVars, localVars, chanVars,
                   cdpVars>>

\* the callback without line 264
ListenerCancel_NoCancel ==
    /\ lpc = "cancel"
    /\ lpc' = "idle"
    /\ UNCHANGED <<reqVars, hpc, trace, respVars, sessionVars, localVars, chanVars,
                   cdpVars, listenerErr, events, handledInRun, lastText>>

\* line 264
ListenerCancel ==
    /\ lpc = "cancel"
    /\ lpc' = "idle"
    /\ ctx' = "cancelled"
    /\ UNCHANGED <<reqVars, hpc, trace, respVars, allocCtx, localVars, chanVars,
                   cdpVars, listenerErr, events, handledInRun, lastText>>

(***************************************************************************)
(* Specifications.                                                         *)
(***************************************************************************)
HandlerStep ==
    \/ SplitHostPortStep
    \/ CheckPeerStep
    \/ CheckMethod
    \/ CheckContentType
    \/ ReadAll
    \/ Unmarshal
    \/ NewContext
    \/ ParseWidth
    \/ ParseHeight
    \/ ParseURL
    \/ CheckScheme
    \/ CheckPath
    \/ CheckAction
    \/ StartRunCDP
    \/ WriteResponse

RunCDPStep ==
    \/ ListenTarget
    \/ IssueCommand
    \/ SetCookies
    \/ SetDeviceMetricsOverride
    \/ Navigate
    \/ waitForDashboardReady
    \/ DashboardNotReady
    \/ PrintToPDF
    \/ CheckListenerErr
    \/ ListenerErrResp
    \/ Receive

ListenerStep ==
    \/ ListenTargetCallback
    \/ ListenerCancel

Next ==
    \/ HandlerStep
    \/ RunCDPStep
    \/ ListenerStep
    \/ CallerDisconnect

Spec == Init /\ [][Next]_vars

\* every goroutine that can take a step eventually takes one, and the engine
\* answers, or the timeout or the cancellation fires, for every command
FairSpec ==
    /\ Spec
    /\ WF_vars(HandlerStep)
    /\ WF_vars(RunCDPStep)
    /\ WF_vars(ListenerCancel)

(***************************************************************************)
(* Properties.                                                             *)
(***************************************************************************)
ProblemJSON == "application/problem+json"

\* the step at which the handler returned
FailedStep == trace[Len(trace)]

EarlySteps == {"Method", "ContentType", "ReadAll", "Unmarshal"}
SizeSteps == {"width", "height"}
URLSteps == {"parseUrl", "Scheme", "Path", "action"}
ValidationSteps == EarlySteps \cup SizeSteps \cup URLSteps

ClassifiedFailures == {handleErr(t) : t \in ErrorTexts}

\* C1: runCDP sends exactly one chromedpResp on respChan and the handler
\* receives exactly one, whatever the interleaving of the pipeline with the
\* load failures: no send before chromedp.Run returned, one send when runCDP
\* has ended, and the handler is past the receive only with that one value.
C1_ExactlyOneOutcome ==
    /\ sent \in {0, 1}
    /\ recvd = sent
    /\ rpc \notin {"idle", "done"} => sent = 0
    /\ rpc = "done" => sent = 1
    /\ hpc = "receive" => recvd = 0
    /\ (hpc \in {"write", "done"} /\ rpc # "idle") =>
          (recvd = 1 /\ rpc = "done" /\ resp = pending)

\* C1 witness: the request is over after several load failures, with one send
C1_Witness ==
    /\ hpc = "done"
    /\ events >= 2
    /\ sent = 1
    /\ recvd = 1

\* C2: when a load failure is handled before chromedp.Run returned, the
\* outcome delivered is the classified failure of a load failure, the
\* response is a 500 problem body, and the PDF is not delivered.
C2_LoadFailureWins ==
    /\ (handledInRun /\ rpc = "done") =>
          (resp.err \in ClassifiedFailures /\ resp.data = NoData)
    /\ (handledInRun /\ hpc = "done") =>
          /\ w.status = StatusInternalServerError
          /\ w.contentType = ProblemJSON
          /\ w.data = NoData
          /\ \E e \in ClassifiedFailures : w.detail = <<"Cannot fetch data: %s", e>>

\* C2 witness: the capture stored the PDF and chromedp.Run returned no error,
\* yet the load failure handled during the capture is what was delivered
C2_Witness ==
    /\ handledInRun
    /\ hpc = "done"
    /\ out = PDF
    /\ err = NoErr
    /\ w.status = StatusInternalServerError

\* C3: a handler blocked on the receive from respChan eventually receives an
\* outcome, writes one response and returns.
C3_HandlerReturns == (hpc = "receive") ~> (hpc = "done" /\ writes = 1 /\ recvd = 1)

\* C3 witness: the handler returned after the caller had disconnected while
\* the pipeline was running
C3_Witness ==
    /\ hpc = "done"
    /\ recvd = 1
    /\ reqCtx = "cancelled"
    /\ err = ContextCanceled

\* C4 as stated: no session context exists when a validation failure is written.
C4_NoContextAtValidationFailure ==
    (hpc = "done" /\ FailedStep \in ValidationSteps) =>
        (allocCtx = "none" /\ ctx = "none")

\* C4 amended: a method, content type, body or JSON failure is written before
\* any session context exists; a width, height or URL failure is written after
\* both contexts were created, but before runCDP is started or any automation
\* command is issued, and both contexts are cancelled when the handler returns.
C4_NoCommandAtValidationFailure ==
    (hpc = "done" /\ FailedStep \in ValidationSteps) =>
        /\ rpc = "idle"
        /\ issued = <<>>
        /\ ~listening
        /\ respChan = "none"
        /\ FailedStep \in EarlySteps => (allocCtx = "none" /\ ctx = "none")
        /\ FailedStep \in SizeSteps \cup URLSteps =>
              (allocCtx = "cancelled" /\ ctx = "cancelled")

\* C4 witness: a width failure, written with both contexts created
C4_Witness ==
    /\ hpc = "done"
    /\ FailedStep = "width"
    /\ w.status = StatusBadRequest
    /\ ctx = "cancelled"
    /\ rpc = "idle"

BadPeer ==
    \/ SplitHostPort(r.RemoteAddr).err # NoErr
    \/ ParseIP(SplitHostPort(r.RemoteAddr).host) \notin allowedPeers

\* C5: for a malformed remote address or a host outside the allow-list the
\* handler writes a 500 failure (naming the address of a disallowed peer) and
\* does nothing else: no method or content type check, no body read or parse,
\* no session context, no runCDP.
C5_PeerFirst ==
    BadPeer =>
        /\ \A i \in 1..Len(trace) : trace[i] \in {"SplitHostPort", "CheckPeer"}
        /\ req.Parameters.width = Unread
        /\ allocCtx = "none"
        /\ ctx = "none"
        /\ rpc = "idle"
        /\ hpc \in {"SplitHostPort", "CheckPeer", "done"}
        /\ hpc = "done" =>
              /\ writes = 1
              /\ w.status = StatusInternalServerError
              /\ w.contentType = ProblemJSON
              /\ SplitHostPort(r.RemoteAddr).err = NoErr =>
                    w.detail = <<"Cannot accept incoming connection for peer: %s.",
                                 r.RemoteAddr>>

\* C5 witness: a peer outside the allow-list was rejected
C5_Witness ==
    /\ hpc = "done"
    /\ r.RemoteAddr = <<"10.0.0.9", ":", "5000">>
    /\ w.status = StatusInternalServerError
    /\ trace = <<"SplitHostPort", "CheckPeer">>

\* C6 as stated: width, height and body-read failures are 500, URL failures 400.
C6_SizeFailuresAre500 ==
    hpc = "done" =>
        /\ FailedStep \in SizeSteps \cup {"ReadAll"} => w.status = StatusInternalServerError
        /\ FailedStep \in URLSteps => w.status = StatusBadRequest
        /\ w.contentType = ProblemJSON =>
              w.status \in {StatusBadRequest, StatusMethodNotAllowed,
                            StatusInternalServerError}

\* C6 amended: a body-read failure and a JSON failure are 500; a width failure,
\* a height failure and every URL check failure are 400; no failure response
\* carries a status outside {400, 405, 500}.
C6_StatusMapping ==
    hpc = "done" =>
        /\ FailedStep \in {"ReadAll", "Unmarshal"} => w.status = StatusInternalServerError
        /\ FailedStep \in SizeSteps \cup URLSteps => w.status = StatusBadRequest
        /\ w.contentType = ProblemJSON =>
              w.status \in {StatusBadRequest, StatusMethodNotAllowed,
                            StatusInternalServerError}

\* C6 witness: a height failure answered with 400
C6_Witness ==
    /\ hpc = "done"
    /\ FailedStep = "height"
    /\ w.status = StatusBadRequest

\* whether the parameter as read is no base-10 integer
NotAnInteger(v) == ParseInt(Parameter(v)).err # NoErr

\* C7: a width (or height) that is no base-10 integer, a missing key included,
\* gets a 400 response naming the field, width before height, and runCDP is
\* never started.
C7_SizeParameters ==
    /\ (req.Parameters.width # Unread /\ NotAnInteger(req.Parameters.width)) =>
          /\ hpc = "done"
          /\ FailedStep = "width"
          /\ w.status = StatusBadRequest
          /\ w.contentType = ProblemJSON
          /\ w.detail[1] = "Incorrect parameter width: %s"
          /\ req.Parameters.height = Unread
          /\ rpc = "idle"
    /\ (req.Parameters.height # Unread /\ NotAnInteger(req.Parameters.height)) =>
          /\ hpc = "done"
          /\ FailedStep = "height"
          /\ w.status = StatusBadRequest
          /\ w.contentType = ProblemJSON
          /\ w.detail[1] = "Incorrect parameter height: %s"
          /\ ~NotAnInteger(req.Parameters.width)
          /\ rpc = "idle"

\* C7 witness: the width key is missing and the response names width
C7_Witness ==
    /\ hpc = "done"
    /\ req.Parameters.width = Missing
    /\ w.status = StatusBadRequest
    /\ w.detail[1] = "Incorrect parameter width: %s"

\* C8: every request handed to runCDP has width > 0 and height > 0.
C8_PositiveSize ==
    rpc # "idle" => (cdpReqParams.size.width > 0 /\ cdpReqParams.size.height > 0)

\* the failure the URL checks report for a raw URL, in the order of the checks
URLFailure(raw) ==
    IF raw.empty THEN <<"Incorrect request url: %s", <<"url is empty">>>>
    ELSE IF ~raw.parses THEN <<"Incorrect request url: %s", <<"parse error">>>>
    ELSE IF raw.scheme = "" THEN <<"Incorrect request url: %s", <<"url is missing scheme">>>>
    ELSE IF raw.scheme \notin {"http", "https", "HTTP", "HTTPS"}
         THEN <<"Unexpected URL scheme: \"%s\"", raw.scheme>>
    ELSE IF ~HasSuffix(raw.path, <<"/", "zabbix.php">>)
         THEN <<"Unexpected URL path: \"%s\"", raw.path>>
    ELSE IF QueryGet(raw.query, "action") # "dashboard.print"
         THEN <<"Unexpected URL action: \"%s\"", QueryGet(raw.query, "action")>>
    ELSE <<>>

\* C9: an empty URL, a missing scheme, a scheme other than http/https, a path
\* not ending in /zabbix.php and an action other than dashboard.print each get
\* a 400 failure naming that constraint; the first constraint violated, in
\* that order, is the one reported, and runCDP is started only when all hold.
C9_URLChecks ==
    req.URL # UnreadURL =>
        /\ rpc # "idle" => URLFailure(req.URL) = <<>>
        /\ (hpc = "done" /\ URLFailure(req.URL) # <<>>) =>
              /\ w.detail = URLFailure(req.URL)
              /\ w.status = StatusBadRequest
              /\ w.contentType = ProblemJSON
              /\ writes = 1
        /\ (hpc = "done" /\ URLFailure(req.URL) = <<>>) => FailedStep = "write"

\* C9 witness: the first action of the query is not dashboard.print, and scheme
\* and path are in order
C9_Witness ==
    /\ hpc = "done"
    /\ w.detail = <<"Unexpected URL action: \"%s\"", "dashboard.view">>
    /\ req.URL.scheme = "HTTPS"
    /\ Len(req.URL.query) = 2

\* strings.ToUpper on the error texts
ToUpper(t) ==
    IF t = "net::err_cert_authority_invalid" THEN "net::ERR_CERT_AUTHORITY_INVALID" ELSE t

\* C10 as stated: the text of the certificate authority failure, in any casing,
\* yields the TLS guidance message.
C10_AnyCasing ==
    (lastText # "none" /\ ToUpper(lastText) = netErrCertAuthorityInvalid) =>
        listenerErr = MsgCertAuthority

\* C10 amended: the text net::ERR_CERT_AUTHORITY_INVALID, in exactly this
\* casing, yields the TLS guidance message in whatever state of the session it
\* arrives; a text that differs from it in casing yields the generic message
\* embedding the text.
C10_ExactCasing ==
    /\ lastText = netErrCertAuthorityInvalid => listenerErr = MsgCertAuthority
    /\ lastText = "net::err_cert_authority_invalid" =>
          listenerErr = MsgErrorText("net::err_cert_authority_invalid")

\* C10 witness: the certificate authority failure handled during the capture
C10_Witness ==
    /\ lastText = netErrCertAuthorityInvalid
    /\ listenerErr = MsgCertAuthority
    /\ rpc = "PrintToPDF"
    /\ inflight

\* C11: handleErr gives every error text exactly one message, never none: the
\* empty text the message of the empty ErrorText and not the generic one, and
\* every other text that is not the certificate authority text the generic
\* message with the text embedded as it came.
C11_handleErrPartition ==
    lastText # "none" =>
        /\ listenerErr # NoErr
        /\ Cardinality({m \in {MsgCertAuthority, MsgEmptyErrorText, MsgErrorText(lastText)} :
                           m = listenerErr}) = 1
        /\ lastText = "" =>
              (listenerErr = MsgEmptyErrorText /\ listenerErr # MsgErrorText(""))
        /\ lastText \notin {"", netErrCertAuthorityInvalid} =>
              (listenerErr = MsgErrorText(lastText) /\ listenerErr[2] = lastText)

\* C11 witness: a load failure with the empty text was classified
C11_Witness ==
    /\ lastText = ""
    /\ listenerErr = MsgEmptyErrorText

\* C12 as stated: when the handler returns after the session contexts were
\* created, both contexts are cancelled and respChan is closed.
C12_ReleasedAndClosed ==
    (hpc = "done" /\ allocCtx # "none") =>
        (ctx = "cancelled" /\ allocCtx = "cancelled" /\ respChan = "closed")

\* C12 amended: when the handler returns after the session contexts were
\* created, both contexts are cancelled on every exit path; respChan is closed
\* on the paths on which it was made (runCDP was started), and does not exist
\* on a width, height or URL failure, which returns before line 215.
C12_Released ==
    (hpc = "done" /\ allocCtx # "none") =>
        /\ ctx = "cancelled"
        /\ allocCtx = "cancelled"
        /\ rpc # "idle" => respChan = "closed"
        /\ rpc = "idle" => (respChan = "none" /\ FailedStep \in SizeSteps \cup URLSteps)

\* C12 witness: the handler returned after the caller had disconnected during
\* the render
C12_Witness ==
    /\ hpc = "done"
    /\ reqCtx = "cancelled"
    /\ rpc = "done"
    /\ ctx = "cancelled"
    /\ allocCtx = "cancelled"
    /\ respChan = "closed"

\* C13: every chromedpResp runCDP sends has either a nil err and the captured
\* PDF as data, or an err and no data, never both.
C13_SuccessOrFailure ==
    /\ rpc \in {"send", "done"} =>
          \/ (pending.err = NoErr /\ pending.data = PDF /\ pending.data = out)
          \/ (pending.err # NoErr /\ pending.data = NoData)
    /\ recvd = 1 =>
          \/ (resp.err = NoErr /\ resp.data = PDF)
          \/ (resp.err # NoErr /\ resp.data = NoData)

\* C13 witness: the capture had stored the PDF when the load failure was
\* handled, and the outcome sent carries the error alone
C13_Witness ==
    /\ rpc = "done"
    /\ out = PDF
    /\ ~handledInRun
    /\ resp.err \in ClassifiedFailures
    /\ resp.data = NoData

\* C14: no retries. Each automation command is issued at most once in a
\* request; once a step has failed, timed out or been cancelled (chromedp.Run
\* has an error) no command is in flight and none is issued any more; and the
\* request with such a failure ends with a 500 problem+json response.
C14_NoRetries ==
    /\ [](/\ \A i, j \in 1..Len(issued) : i # j => issued[i] # issued[j]
          /\ err # NoErr => (rpc \notin CommandSet \cup {"idle", "ListenTarget"} /\ ~inflight)
          /\ (hpc = "done" /\ err # NoErr) =>
                /\ w.status = StatusInternalServerError
                /\ w.contentType = ProblemJSON
                /\ writes = 1)
    /\ [][err # NoErr => (issued' = issued /\ err' = err)]_vars

\* C14 witness: the capture timed out after every command was issued once, and
\* the caller got the 500
C14_Witness ==
    /\ hpc = "done"
    /\ err = <<"context deadline exceeded">>
    /\ issued = Commands
    /\ w.status = StatusInternalServerError

\* C15: the steps are taken in the order of the task list only. A command is
\* issued only when it is the next of the list and every earlier one was
\* answered without error; the capture becomes the current task only on the
\* poll's answer without error; the PDF is stored only on the capture's answer
\* without error; and a success outcome is built only after that.
C15_StepOrder ==
    [][/\ issued' # issued =>
             /\ listening
             /\ err = NoErr
             /\ rpc = Commands[Len(issued) + 1]
             /\ issued' = SubSeq(Commands, 1, Len(issued) + 1)
       /\ \A i \in 1..Len(Commands) :
             (rpc' = Commands[i] /\ rpc # Commands[i]) =>
                 IF i = 1
                 THEN rpc = "ListenTarget" /\ issued = <<>>
                 ELSE /\ rpc = Commands[i - 1]
                      /\ inflight
                      /\ issued = SubSeq(Commands, 1, i - 1)
                      /\ err = NoErr
                      /\ err' = NoErr
       /\ (out' = PDF /\ out # PDF) =>
             (rpc = "PrintToPDF" /\ inflight /\ err' = NoErr /\ issued = Commands)
       /\ (rpc' = "send" /\ pending'.err = NoErr) =>
             (issued = Commands /\ err = NoErr /\ out = PDF /\ pending'.data = PDF)
      ]_vars

\* C15 witness: a request went through every step and its success outcome was
\* received
C15_Witness ==
    /\ rpc = "done"
    /\ issued = Commands
    /\ resp = [data |-> PDF, err |-> NoErr]

\* C16: the listener is registered before the first command is issued and stays
\* registered; each load failure it has handled was classified by handleErr,
\* and when its callback has returned the session context is cancelled.
C16_ListenerFirst ==
    /\ issued # <<>> => listening
    /\ rpc \notin {"idle", "ListenTarget"} => listening
    /\ ~listening => (events = 0 /\ listenerErr = NoErr)
    /\ events > 0 =>
          /\ listenerErr = handleErr(lastText)
          /\ listenerErr \in ClassifiedFailures
          /\ lpc = "idle" => ctx = "cancelled"

\* C16 witness: a second load failure was handled while the poll was in flight
C16_Witness ==
    /\ events = 2
    /\ lpc = "idle"
    /\ handledInRun
    /\ issued = SubSeq(Commands, 1, 4)
    /\ ctx = "cancelled"

\* C17 as stated: when chromedp.Run returned before any load failure was
\* handled, the outcome delivered is the pipeline's own result (its error, or
\* the PDF), whatever load failure is handled afterwards.
C17_FirstFinisherWins ==
    (rpc = "done" /\ ~handledInRun) =>
        resp = (IF err # NoErr
                THEN [data |-> NoData, err |-> err]
                ELSE [data |-> out, err |-> NoErr])

\* C18 as stated: at the moment the outcome has been sent on respChan the
\* session context is cancelled already.
C18_CancelledAtSend ==
    (recvd = 1 /\ hpc = "write") => ctx = "cancelled"

\* C19: respChan is closed only after the handler received the one value
\* runCDP sends; while runCDP has not sent yet the channel is open and the
\* handler is at the receive, so runCDP neither sends on a closed channel nor
\* is left at its send by a handler that returned.
C19_CloseAfterReceive ==
    /\ sent = recvd
    /\ sent <= 1
    /\ respChan = "closed" => (recvd = 1 /\ rpc = "done" /\ hpc = "done")
    /\ rpc \notin {"idle", "done"} => (respChan = "open" /\ hpc = "receive" /\ sent = 0)
    /\ hpc = "done" => rpc \in {"idle", "done"}

\* C19 witness: the caller disconnected during the render, and the channel was
\* closed after the receive all the same
C19_Witness ==
    /\ respChan = "closed"
    /\ reqCtx = "cancelled"
    /\ recvd = 1
    /\ resp.err = <<"context canceled">>

\* the order of the handler's steps
FullOrder ==
    <<"SplitHostPort", "CheckPeer", "Method", "ContentType", "ReadAll", "Unmarshal",
      "NewContext", "width", "height", "parseUrl", "Scheme", "Path", "action",
      "runCDP", "receive", "write">>

====
